---- MODULE Spec2Model ----
(***************************************************************************)
(* A model of the oref_alert integration:                                  *)
(*   - OrefAlertLocationEventManager (geo_location.py), the reconciler     *)
(*     that keeps one geolocation entity per active alert area and removes *)
(*     entities in a deferred cleanup task;                                *)
(*   - OrefMetadata (scripts/generate_metadata.py), the offline generator  *)
(*     of the static area tables.                                          *)
(* Time is counted in whole seconds: `clock` is int(time.time()), and any  *)
(* number of callbacks can run between two steps of it.                    *)
(***************************************************************************)
EXTENDS Integers, Sequences, FiniteSets, TLC

VARIABLES
    pc,               \* position of OrefAlertLocationEventManager.__init__
    clock,            \* wall clock, whole seconds
    active,           \* areas named by coordinator.data.active_alerts
    location_events,  \* self._location_events: area -> entity
    registry,         \* the host's entity registry: a set of entries
    listener,         \* whether _async_update is registered as listener
    tasks,            \* pending _cleanup_entities tasks, oldest first
    created,          \* history: every entity ever constructed
    dropped_at,       \* history: area -> second of the update that last saw
                      \* the area go from active to not active (-1: none)
    last_run,         \* history: the cleanup task that ran last, with the
                      \* active areas it read (<<>>: none has run)
    gpc,              \* position of the generator script
    cities_mix,       \* OrefMetadata._cities_mix: the labels fetched
    districts,        \* the reply of DISTRICTS_URL
    tzeva_cities,     \* OrefMetadata._tzeva_cities: the names listed
    areas_and_groups, \* OrefMetadata._areas_and_groups
    area_info,        \* OrefMetadata._area_info
    written           \* the output files generate() has written

mvars == <<pc, clock, active, location_events, registry, listener, tasks,
           created, dropped_at, last_run>>

gvars == <<gpc, cities_mix, districts, tzeva_cities, areas_and_groups,
           area_info, written>>

vars == <<mvars, gvars>>

----------------------------------------------------------------------------
(* Bounds of the model *)

\* coordinator updates arrive only while clock < MaxClock
MaxClock == 11
\* the clock is observed every TickSeconds seconds
TickSeconds == 5
\* at most this many entities are constructed in a run
MaxEntities == 3
\* at most this many cleanup tasks are pending at a time
MaxTasks == 2

----------------------------------------------------------------------------
(* Constants of the program *)

\* asyncio.sleep(10) in _cleanup_entities
CleanupDelay == 10

\* Two keys of AREA_INFO (the generator copies them from MISSING_CITIES)
\* and one area name that is not a key of AREA_INFO.
AREA_INFO ==
    [a \in {"NirYafeh", "Gadish"} |->
        IF a = "NirYafeh"
        THEN [lat |-> 325698, long |-> 352448, en |-> "Nir Yafeh"]
        ELSE [lat |-> 325588, long |-> 352444, en |-> "Gadish"]]

Areas == DOMAIN AREA_INFO \cup {"Unlisted"}

\* homeassistant.util.slugify on the English names above: lower case,
\* every run of non-alphanumeric characters becomes one underscore.
slugify(en) ==
    CASE en = "Nir Yafeh" -> "nir_yafeh"
      [] en = "Gadish" -> "gadish"

\* {OREF_ALERT_UNIQUE_ID}_{LOCATION_ID_SUFFIX}_ + slug + _{int(time.time())}
unique_id(area, now) == <<"oref_alert_location", slugify(AREA_INFO[area].en), now>>

\* OrefAlertLocationEvent.__init__: a new entity object.  `serial` is the
\* identity of the object (the number of entities constructed before the
\* run that constructs it); it is not part of the unique ID.
OrefAlertLocationEvent(area, now, serial) ==
    [area |-> area,
     unique_id |-> unique_id(area, now),
     latitude |-> AREA_INFO[area].lat,
     longitude |-> AREA_INFO[area].long,
     serial |-> serial]

----------------------------------------------------------------------------
(* The host's entity registry *)

ThisEntry == "this_entry"
OtherEntry == "other_entry"
GEO_LOCATION == "geo_location"
SENSOR == "sensor"

\* the entity_id the platform gives an entity object
EntityId(e) == <<e.area, e.serial>>

RegistryEntry(e) ==
    [entity_id |-> EntityId(e), config_entry_id |-> ThisEntry, domain |-> GEO_LOCATION]

\* entries a previous run of the host can have left behind
StaleEntries ==
    { [entity_id |-> <<"stale_geo", 0>>, config_entry_id |-> ThisEntry,
       domain |-> GEO_LOCATION],
      [entity_id |-> <<"stale_sensor", 0>>, config_entry_id |-> ThisEntry,
       domain |-> SENSOR],
      [entity_id |-> <<"other_geo", 0>>, config_entry_id |-> OtherEntry,
       domain |-> GEO_LOCATION] }

StaleGeo == {r \in StaleEntries :
                r.config_entry_id = ThisEntry /\ r.domain = GEO_LOCATION}

\* er.async_entries_for_config_entry
async_entries_for_config_entry(reg, entry_id) ==
    {r \in reg : r.config_entry_id = entry_id}

\* a clean start that does not look at entry.domain
AsyncCleanStartAnyDomain(reg) ==
    reg \ async_entries_for_config_entry(reg, ThisEntry)

\* _async_clean_start: the registry after the loop
AsyncCleanStart(reg) ==
    reg \ {r \in async_entries_for_config_entry(reg, ThisEntry) :
              r.domain = GEO_LOCATION}

\* the platform's async_add_entities callback: the entities get registered
AsyncAddEntities(reg, entities) == reg \cup {RegistryEntry(e) : e \in entities}

----------------------------------------------------------------------------
(* _async_update *)

\* to_add taken over `active` instead of `active - exists`
ToAddAreasOfActive(act, exists) == {a \in act : a \in DOMAIN AREA_INFO}

\* the areas of the dict comprehension `to_add`
ToAddAreas(act, exists) == {a \in act \ exists : a \in DOMAIN AREA_INFO}

\* one task for each area of exists - active
ScheduledPerArea(act, exists) == Cardinality(exists \ act)

\* the test made on active - exists instead of exists - active
ScheduledWrongDifference(act, exists) ==
    IF Cardinality(act \ exists) # 0 THEN 1 ELSE 0

\* the number of cleanup tasks the run schedules: async_create_task is
\* called once when len(exists - active) is not zero
Scheduled(act, exists) == IF Cardinality(exists \ act) # 0 THEN 1 ELSE 0

\* a new _cleanup_entities task: it wakes CleanupDelay seconds from now.
\* `missing` is history: the entities of the areas in exists - active when
\* the task was scheduled.
NewTask(act, events) ==
    [wake |-> clock + CleanupDelay,
     missing |-> [a \in (DOMAIN events) \ act |-> events[a]]]

RECURSIVE Repeat(_, _)
Repeat(x, n) == IF n = 0 THEN <<>> ELSE <<x>> \o Repeat(x, n - 1)

\* the body of _async_update, run with the active-alert areas `act`
AsyncUpdate(act) ==
    LET exists == DOMAIN location_events
        areas == ToAddAreas(act, exists)
        serial == Cardinality(created)
        to_add == [a \in areas |-> OrefAlertLocationEvent(a, clock, serial)]
        new == {to_add[a] : a \in areas}
        n == Scheduled(act, exists)
    IN  /\ Cardinality(created) + Cardinality(areas) <= MaxEntities
        /\ Len(tasks) + n <= MaxTasks
        /\ location_events' =
              [a \in exists \cup areas |->
                  IF a \in areas THEN to_add[a] ELSE location_events[a]]
        /\ registry' = AsyncAddEntities(registry, new)
        /\ tasks' = tasks \o Repeat(NewTask(act, location_events), n)
        /\ created' = created \cup new
        /\ dropped_at' =
              [a \in DOMAIN AREA_INFO |->
                  IF a \in (exists \cap active) \ act THEN clock
                  ELSE IF a \in act THEN -1 ELSE dropped_at[a]]

----------------------------------------------------------------------------
(* _cleanup_entities, after its sleep *)

\* the areas that were missing when the task was scheduled
AreasToDeleteAtScheduling(t, events, act) == DOMAIN t.missing

\* every area, the active ones too
AreasToDeleteAll(t, events, act) == DOMAIN events

\* areas_to_delete, from the active areas read after the sleep
AreasToDelete(t, events, act) == (DOMAIN events) \ act

RemoveAt(s, i) == SubSeq(s, 1, i - 1) \o SubSeq(s, i + 1, Len(s))

CleanupEntities(i) ==
    /\ pc = "running"
    /\ i \in 1..Len(tasks)
    /\ tasks[i].wake <= clock
    /\ LET areas_to_delete == AreasToDelete(tasks[i], location_events, active)
       IN  /\ location_events' =
                 [a \in (DOMAIN location_events) \ areas_to_delete |->
                     location_events[a]]
           /\ registry' =
                 registry \ {RegistryEntry(location_events[a]) :
                                a \in areas_to_delete \cap DOMAIN location_events}
    /\ tasks' = RemoveAt(tasks, i)
    /\ dropped_at' = [a \in DOMAIN AREA_INFO |->
                         IF a \in DOMAIN location_events' THEN dropped_at[a] ELSE -1]
    /\ last_run' = <<[missing |-> tasks[i].missing, active |-> active]>>
    /\ UNCHANGED <<pc, clock, active, listener, created, gvars>>

----------------------------------------------------------------------------
(* OrefAlertLocationEventManager.__init__, one statement at a time *)

CleanStart ==
    /\ pc = "clean_start"
    /\ registry' = AsyncCleanStart(registry)
    /\ pc' = "add_listener"
    /\ UNCHANGED <<clock, active, location_events, listener, tasks, created,
                   dropped_at, last_run, gvars>>

AddListener ==
    /\ pc = "add_listener"
    /\ listener' = TRUE
    /\ pc' = "first_update"
    /\ UNCHANGED <<clock, active, location_events, registry, tasks, created,
                   dropped_at, last_run, gvars>>

FirstUpdate ==
    /\ pc = "first_update"
    /\ AsyncUpdate(active)
    /\ pc' = "running"
    /\ UNCHANGED <<clock, active, listener, last_run, gvars>>

\* The coordinator has new data and calls its listeners.
CoordinatorUpdate(act) ==
    /\ pc = "running"
    /\ listener
    /\ clock < MaxClock
    /\ active' = act
    /\ AsyncUpdate(act)
    /\ UNCHANGED <<pc, clock, listener, last_run, gvars>>

\* d seconds pass
Tick(d) ==
    /\ pc = "running"
    /\ clock < MaxClock + CleanupDelay
    /\ clock' = clock + d
    /\ UNCHANGED <<pc, active, location_events, registry, listener, tasks,
                   created, dropped_at, last_run, gvars>>

\* The state when OrefAlertLocationEventManager.__init__ is entered: the
\* coordinator holds some alerts, the registry some entries of an earlier run.
InitManager ==
    /\ pc = "clean_start"
    /\ clock = 0
    /\ active \in SUBSET Areas
    /\ location_events = <<>>
    /\ registry \in {StaleEntries, StaleGeo}
    /\ listener = FALSE
    /\ tasks = <<>>
    /\ created = {}
    /\ dropped_at = [a \in DOMAIN AREA_INFO |-> -1]
    /\ last_run = <<>>

----------------------------------------------------------------------------
(* scripts/generate_metadata.py *)

\* A string is a sequence of symbols.  A symbol is a space, a dash or one
\* whole Hebrew word, numbered in the order of the code points, so that
\* comparing sequences symbol by symbol is comparing the strings.
Ch == [sp |-> 1, dash |-> 2, barhavei |-> 3, gadish |-> 4, dan |-> 5,
       haezorim |-> 6, haaretz |-> 7, hadera |-> 8, kol |-> 9, mahoz |-> 10,
       maarav |-> 11]

CITY_ALL_AREAS_SUFFIX == <<Ch.sp, Ch.dash, Ch.sp, Ch.kol, Ch.sp, Ch.haezorim>>
CITY_ALL_AREAS_SUFFIX_TYPO == <<Ch.sp, Ch.kol, Ch.sp, Ch.dash, Ch.sp, Ch.haezorim>>
DISTRICT_PREFIX == <<Ch.mahoz, Ch.sp>>

Gadish == <<Ch.gadish>>
AllCountry == <<Ch.kol, Ch.sp, Ch.haaretz>>
AcrossCountry == <<Ch.barhavei, Ch.sp, Ch.haaretz>>
HaderaWest == <<Ch.hadera, Ch.sp, Ch.dash, Ch.sp, Ch.maarav>>
HaderaAll == <<Ch.hadera>> \o CITY_ALL_AREAS_SUFFIX
HaderaAllTypo == <<Ch.hadera>> \o CITY_ALL_AREAS_SUFFIX_TYPO
MahozDan == DISTRICT_PREFIX \o <<Ch.dan>>

\* two of the entries of MISSING_CITIES
MISSING_CITIES ==
    [n \in {Gadish, AllCountry} |->
        IF n = Gadish
        THEN [lat |-> 325588, long |-> 352444, en |-> "Gadish"]
        ELSE [lat |-> 317781, long |-> 352164, en |-> "Entire country"]]

\* The upstream replies the script is run against.
LabelPool == {HaderaWest, HaderaAll, HaderaAllTypo, Gadish, MahozDan}

DistrictPool ==
    { [label_he |-> HaderaWest, label |-> HaderaWest, areaname |-> <<Ch.dan>>,
       value |-> 1],
      [label_he |-> Gadish, label |-> Gadish, areaname |-> <<Ch.dan>>,
       value |-> 2],
      [label_he |-> Gadish, label |-> Gadish, areaname |-> <<Ch.maarav>>,
       value |-> 0],                                   \* value is None
      [label_he |-> AllCountry, label |-> AllCountry, areaname |-> <<Ch.gadish>>,
       value |-> 3] }

TzevaPool ==
    [n \in {HaderaWest, Gadish, MahozDan} |->
        [id |-> Len(n), lat |-> 320000 + Len(n), lng |-> 340000 + Len(n),
         en |-> "tzevaadom"]]

Range(s) == {s[i] : i \in DOMAIN s}

\* str.startswith, str.endswith
StartsWith(s, prefix) ==
    Len(prefix) <= Len(s) /\ SubSeq(s, 1, Len(prefix)) = prefix

EndsWith(s, suffix) ==
    Len(suffix) <= Len(s)
        /\ SubSeq(s, Len(s) - Len(suffix) + 1, Len(s)) = suffix

\* str.replace: every occurrence of old, left to right, not overlapping
RECURSIVE Replace(_, _, _)
Replace(s, old, new) ==
    IF s = <<>> THEN <<>>
    ELSE IF StartsWith(s, old)
         THEN new \o Replace(SubSeq(s, Len(old) + 1, Len(s)), old, new)
         ELSE <<Head(s)>> \o Replace(Tail(s), old, new)

\* the order of str: by code point, a proper prefix first
RECURSIVE StrLess(_, _)
StrLess(s, t) ==
    IF t = <<>> THEN FALSE
    ELSE IF s = <<>> THEN TRUE
    ELSE IF Head(s) # Head(t) THEN Head(s) < Head(t)
    ELSE StrLess(Tail(s), Tail(t))

\* list.sort
Sort(list) == SortSeq(list, StrLess)

\* list(a set), sorted
RECURSIVE SortedList(_)
SortedList(S) ==
    IF S = {} THEN <<>>
    ELSE LET m == CHOOSE x \in S : \A y \in S : x = y \/ StrLess(x, y)
         IN  <<m>> \o SortedList(S \ {m})

IsSorted(list) ==
    \A i \in 1..(Len(list) - 1) :
        list[i] = list[i + 1] \/ StrLess(list[i], list[i + 1])

\* _get_areas
GetAreas(mix) ==
    SortedList({Replace(l, CITY_ALL_AREAS_SUFFIX_TYPO, CITY_ALL_AREAS_SUFFIX) :
                   l \in mix})

IsGroup(area) == EndsWith(area, CITY_ALL_AREAS_SUFFIX)

\* the list without the filter on the suffix
AreasNoGroupUnfiltered(backend_areas) == backend_areas

\* self._areas_no_group
AreasNoGroup(backend_areas) == SelectSeq(backend_areas, LAMBDA a : ~IsGroup(a))

\* _get_cities_with_all_areas
GetCitiesWithAllAreas(backend_areas) ==
    LET groups == SelectSeq(backend_areas, IsGroup)
    IN  Sort([i \in DOMAIN groups |->
                 Replace(groups[i], CITY_ALL_AREAS_SUFFIX, <<>>)])

\* _city_to_areas_map
CityToAreasMap(backend_areas, no_group) ==
    LET cities == Range(GetCitiesWithAllAreas(backend_areas))
    IN  [k \in {c \o CITY_ALL_AREAS_SUFFIX : c \in cities} |->
            LET city == CHOOSE c \in cities : c \o CITY_ALL_AREAS_SUFFIX = k
            IN  SortedList({a \in Range(no_group) : StartsWith(a, city)})]

\* _get_districts
GetDistricts(reply) ==
    {d \in reply : d.value # 0 /\ d.label \notin {AllCountry, AcrossCountry}}

\* _district_to_areas_map
DistrictToAreasMap(reply, no_group) ==
    LET ds == GetDistricts(reply)
    IN  [k \in {DISTRICT_PREFIX \o d.areaname : d \in ds} |->
            SortedList({d.label_he : d \in
                           {x \in ds : /\ DISTRICT_PREFIX \o x.areaname = k
                                       /\ x.label_he \in Range(no_group)}})]

\* the assertion inside the loop of _district_to_areas_map
DistrictAssert(reply, no_group, city_to_areas) ==
    \A d \in GetDistricts(reply) :
        d.label_he \in Range(no_group) => d.label_he \notin DOMAIN city_to_areas

\* self._areas_and_groups, sorted.  The keys of a dict come in insertion
\* order; the sort that follows makes the order irrelevant.
AreasAndGroups(no_group, city_to_areas, district_to_areas) ==
    Sort(no_group \o SortedList(DOMAIN city_to_areas)
                  \o SortedList(DOMAIN district_to_areas))

\* assert len(self._areas_and_groups) == len(set(self._areas_and_groups))
NoDuplicates(list) == Len(list) = Cardinality(Range(list))

\* the second assertion alone
AreaInfoAssertsCoverageOnly(no_group, tzeva) ==
    (Range(no_group) \ (DOMAIN tzeva)) \ (DOMAIN MISSING_CITIES) = {}

\* the two assertions of _get_area_info
AreaInfoAsserts(no_group, tzeva) ==
    /\ (DOMAIN MISSING_CITIES) \cap (DOMAIN tzeva) = {}
    /\ (Range(no_group) \ (DOMAIN tzeva)) \ (DOMAIN MISSING_CITIES) = {}

\* the loop of _get_area_info
GetAreaInfo(no_group, tzeva) ==
    [a \in Range(no_group) |->
        IF a \in DOMAIN tzeva
        THEN [lat |-> tzeva[a].lat, long |-> tzeva[a].lng, en |-> tzeva[a].en]
        ELSE MISSING_CITIES[a]]

BackendAreas == GetAreas(cities_mix)
NoGroup == AreasNoGroup(BackendAreas)
CityToAreas == CityToAreasMap(BackendAreas, NoGroup)
DistrictToAreas == DistrictToAreasMap(districts, NoGroup)

\* OrefMetadata.__init__ up to the assertion on _areas_and_groups
BuildAreasAndGroups ==
    /\ gpc = "init"
    /\ LET list == AreasAndGroups(NoGroup, CityToAreas, DistrictToAreas)
       IN  IF ~DistrictAssert(districts, NoGroup, CityToAreas)
           THEN areas_and_groups' = areas_and_groups
                   /\ gpc' = "district_assertion_error"
           ELSE IF ~NoDuplicates(list)
           THEN areas_and_groups' = list /\ gpc' = "groups_assertion_error"
           ELSE areas_and_groups' = list /\ gpc' = "tzevaadom"
    /\ UNCHANGED <<cities_mix, districts, tzeva_cities, area_info, written, mvars>>

\* OrefMetadata.__init__ from _get_tzevaadom_data to its end
BuildAreaInfo ==
    /\ gpc = "tzevaadom"
    /\ IF AreaInfoAsserts(NoGroup, tzeva_cities)
       THEN area_info' = GetAreaInfo(NoGroup, tzeva_cities) /\ gpc' = "constructed"
       ELSE area_info' = area_info /\ gpc' = "area_info_assertion_error"
    /\ UNCHANGED <<cities_mix, districts, tzeva_cities, areas_and_groups, written,
                   mvars>>

\* OrefMetadata.generate
Generate ==
    /\ gpc = "constructed"
    /\ written' = [AREAS_AND_GROUPS |-> areas_and_groups,
                   CITY_ALL_AREAS |-> CityToAreas,
                   DISTRICT_AREAS |-> DistrictToAreas,
                   AREAS |-> NoGroup,
                   AREA_INFO |-> area_info]
    /\ gpc' = "generated"
    /\ UNCHANGED <<cities_mix, districts, tzeva_cities, areas_and_groups,
                   area_info, mvars>>

\* the generator script is not run
GeneratorIdle ==
    /\ gpc = "idle"
    /\ cities_mix = {}
    /\ districts = {}
    /\ tzeva_cities = <<>>
    /\ areas_and_groups = <<>>
    /\ area_info = <<>>
    /\ written = <<>>

\* the integration is not set up
ManagerIdle ==
    /\ pc = "idle"
    /\ clock = 0
    /\ active = {}
    /\ location_events = <<>>
    /\ registry = {}
    /\ listener = FALSE
    /\ tasks = <<>>
    /\ created = {}
    /\ dropped_at = [a \in DOMAIN AREA_INFO |-> -1]
    /\ last_run = <<>>

\* the script is started: the upstream replies are any of the pools
InitGenerator ==
    /\ gpc = "init"
    /\ cities_mix \in SUBSET LabelPool
    /\ districts \in SUBSET DistrictPool
    /\ tzeva_cities \in {[n \in names |-> TzevaPool[n]] :
                            names \in SUBSET DOMAIN TzevaPool}
    /\ areas_and_groups = <<>>
    /\ area_info = <<>>
    /\ written = <<>>

----------------------------------------------------------------------------
(* Spec: the integration running; SpecLive: the same, with every cleanup   *)
(* task eventually run; SpecGen: one run of the generator script           *)

Init == InitManager /\ GeneratorIdle

Next ==
    \/ CleanStart
    \/ AddListener
    \/ FirstUpdate
    \/ \E act \in SUBSET Areas : CoordinatorUpdate(act)
    \/ \E i \in 1..MaxTasks : CleanupEntities(i)
    \/ Tick(TickSeconds)

Spec == Init /\ [][Next]_vars

\* Time passes, and the event loop runs a task whose sleep is over.
SpecLive ==
    /\ Spec
    /\ WF_vars(Tick(TickSeconds))
    /\ WF_vars(\E i \in 1..MaxTasks : CleanupEntities(i))

InitGen == ManagerIdle /\ InitGenerator

NextGen ==
    \/ BuildAreasAndGroups
    \/ BuildAreaInfo
    \/ Generate

SpecGen == InitGen /\ [][NextGen]_vars

----------------------------------------------------------------------------
(* Properties of the reconciler *)

\* a step that runs _async_update with the active-alert areas `act`
UpdateRun(act) == CoordinatorUpdate(act) \/ (FirstUpdate /\ act = active)

\* the registry holds no entry for an entity of area a
Unregistered(a) == \A r \in registry : r.entity_id[1] # a

\* C1: every run of _async_update adds to _location_events exactly the
\* areas of (active - exists) that are keys of AREA_INFO, with one new
\* entity object each, hands exactly those entities to async_add_entities,
\* skips the active areas that are not keys of AREA_INFO, and leaves
\* every earlier entry mapped to the same entity.
C1_UpdateAddsNewKnownAreas ==
    [][\A act \in SUBSET Areas :
         UpdateRun(act) =>
           LET exists == DOMAIN location_events
               expected == {a \in act \ exists : a \in DOMAIN AREA_INFO}
               added == {location_events'[a] : a \in expected}
           IN  /\ DOMAIN location_events' = exists \cup expected
               /\ \A a \in exists : location_events'[a] = location_events[a]
               /\ \A a \in expected :
                     /\ location_events'[a].area = a
                     /\ location_events'[a] \notin created
               /\ Cardinality(added) = Cardinality(expected)
               /\ created' \ created = added
               /\ registry' \ registry = {RegistryEntry(e) : e \in added}
               /\ registry \subseteq registry'
      ]_vars

\* C1, its case: an unlisted area is active, and one listed area got its
\* entity in a later run than the other, which kept its own.
C1_Witness ==
    /\ "Unlisted" \in active
    /\ DOMAIN location_events = DOMAIN AREA_INFO
    /\ location_events["NirYafeh"].serial < location_events["Gadish"].serial

\* C2: an area's entity is removed no sooner than CleanupDelay seconds
\* after the _async_update run that saw the area go from active to not
\* active, and _async_update itself removes no entry.
C2_RemovalIsDebounced ==
    [][/\ \A a \in (DOMAIN location_events) \ (DOMAIN location_events') :
             /\ dropped_at[a] >= 0
             /\ clock >= dropped_at[a] + CleanupDelay
       /\ \A act \in SUBSET Areas :
             UpdateRun(act) =>
                /\ DOMAIN location_events \subseteq DOMAIN location_events'
                /\ registry \subseteq registry'
      ]_vars

\* C3, as claimed: a cleanup task removes no entity of an area that is
\* active when the task runs, and an area that was missing when the task
\* was scheduled but is active when it runs still has the entity it had
\* at scheduling.
C3_KeepsOriginalEntity ==
    [][\A i \in 1..MaxTasks :
         CleanupEntities(i) =>
           /\ \A a \in active \cap DOMAIN location_events :
                 /\ a \in DOMAIN location_events'
                 /\ location_events'[a] = location_events[a]
           /\ \A a \in active \cap DOMAIN tasks[i].missing :
                 /\ a \in DOMAIN location_events'
                 /\ location_events'[a] = tasks[i].missing[a]
      ]_vars

\* C3, amended: a cleanup task decides with the active areas as they are
\* when it runs, so it leaves every active area with the entity the area
\* has at that moment; for an area that was missing at scheduling this is
\* the entity of that time or, when another cleanup task removed the area
\* in between, one constructed later.
C3_NoRemovalOfActiveArea ==
    [][\A i \in 1..MaxTasks :
         CleanupEntities(i) =>
           /\ DOMAIN location_events'
                 = (DOMAIN location_events) \cap active
           /\ \A a \in active \cap DOMAIN location_events :
                 /\ location_events'[a] = location_events[a]
                 /\ RegistryEntry(location_events[a]) \in registry
                       => RegistryEntry(location_events[a]) \in registry'
           /\ \A a \in active \cap DOMAIN tasks[i].missing :
                 /\ a \in DOMAIN location_events'
                 /\ \/ location_events'[a] = tasks[i].missing[a]
                    \/ location_events'[a].serial > tasks[i].missing[a].serial
      ]_vars

\* C3, its case: the cleanup task that ran last found active an area that
\* was missing when it was scheduled, and the area still has the entity
\* of that time.
C3_Witness ==
    /\ last_run # <<>>
    /\ \E a \in last_run[1].active \cap DOMAIN last_run[1].missing :
          /\ a \in DOMAIN location_events
          /\ location_events[a] = last_run[1].missing[a]

\* C4: an area that has an entity, is not active and is never active again
\* eventually has no entry in _location_events and no entity in the
\* registry, for good.
C4_RemovalEventuallyHappens ==
    \A a \in DOMAIN AREA_INFO :
        []((a \in DOMAIN location_events /\ a \notin active /\ [](a \notin active))
              => <>[](a \notin DOMAIN location_events /\ Unregistered(a)))

\* C4, its case: an entity was constructed for an area that is no longer
\* active, and a cleanup task has removed it from both places.
C4_Witness ==
    \E e \in created :
        /\ e.area \notin active
        /\ e.area \notin DOMAIN location_events
        /\ Unregistered(e.area)
        /\ RegistryEntry(e) \notin registry

\* C5: when the manager is constructed and no cleanup task is pending, the
\* keys of _location_events are exactly the active areas that are keys of
\* AREA_INFO.
C5_InSyncAtRest ==
    (pc = "running" /\ tasks = <<>>) =>
        DOMAIN location_events = active \cap DOMAIN AREA_INFO

\* C5, its case: at rest after a cleanup task removed one area's entity
\* and kept another's, an unlisted area being active too.
C5_Witness ==
    /\ pc = "running"
    /\ tasks = <<>>
    /\ \E e \in created : e.area \notin DOMAIN location_events
    /\ location_events # <<>>
    /\ "Unlisted" \in active

\* C6, as claimed: at most one cleanup task is pending at any moment.
C6_SinglePendingTask == Len(tasks) <= 1

\* C6, amended: one run of _async_update schedules at most one cleanup
\* task, and only when some area with an entry is not active; tasks of
\* different runs can be pending together.
C6_OneTaskPerUpdate ==
    [][/\ Len(tasks') <= Len(tasks) + 1
       /\ Len(tasks') > Len(tasks) =>
             /\ \E act \in SUBSET Areas : UpdateRun(act)
             /\ (DOMAIN location_events) \ active' # {}
       /\ \A act \in SUBSET Areas :
             (UpdateRun(act) /\ (DOMAIN location_events) \ act # {}) =>
                Len(tasks') = Len(tasks) + 1
      ]_vars

\* C6, its case: two cleanup tasks of different runs are pending.
C6_Witness ==
    /\ Len(tasks) = 2
    /\ tasks[1].wake < tasks[2].wake

\* C8: from the moment _async_clean_start has run, so before the listener
\* is registered and before any entity is added, the registry holds no
\* geo_location entry of an earlier run for this config entry; the clean
\* start removes nothing else.
C8_CleanStart ==
    /\ []((pc # "clean_start" \/ listener \/ created # {}) =>
             registry \cap StaleGeo = {})
    /\ [][pc = "clean_start" =>
             /\ pc' = "add_listener"
             /\ ~listener' /\ created' = {}
             /\ registry' = {r \in registry :
                               ~(r.config_entry_id = ThisEntry
                                 /\ r.domain = GEO_LOCATION)}
         ]_vars
    /\ [][(StaleEntries \ StaleGeo) \cap registry
             = (StaleEntries \ StaleGeo) \cap registry']_vars

\* C8, its case: the listener is registered and the first entity added,
\* the stale geo_location entry is gone and the other entries are there.
C8_Witness ==
    /\ listener
    /\ created # {}
    /\ registry \cap StaleGeo = {}
    /\ StaleEntries \ StaleGeo \subseteq registry

\* C10: any two entities the manager constructs have distinct unique IDs.
C10_UniqueIdsDistinct ==
    \A e1, e2 \in created : e1 # e2 => e1.unique_id # e2.unique_id

----------------------------------------------------------------------------
(* Properties of the generator *)

Constructed == gpc \in {"constructed", "generated"}

\* C7: when the construction of OrefMetadata succeeds, area_info has one
\* entry (lat, long, en) for every non-group area and no other key, taken
\* from the tzevaadom cities when the area is listed there and from
\* MISSING_CITIES otherwise; when a non-group area is in neither, or a
\* name is in both, the construction ends in an assertion error and
\* generate() writes nothing.
C7_AreaInfoOrNothing ==
    LET areas == Range(NoGroup)
        covered == areas \subseteq (DOMAIN tzeva_cities) \cup (DOMAIN MISSING_CITIES)
        shared == (DOMAIN MISSING_CITIES) \cap (DOMAIN tzeva_cities) # {}
    IN  /\ Constructed =>
              /\ DOMAIN area_info = areas
              /\ \A a \in areas :
                    IF a \in DOMAIN tzeva_cities
                    THEN area_info[a] = [lat |-> tzeva_cities[a].lat,
                                         long |-> tzeva_cities[a].lng,
                                         en |-> tzeva_cities[a].en]
                    ELSE area_info[a] = MISSING_CITIES[a]
        /\ (~covered \/ shared) =>
              /\ ~Constructed
              /\ written = <<>>
              /\ gpc \notin {"init", "tzevaadom"} =>
                    gpc \in {"groups_assertion_error", "area_info_assertion_error"}
        /\ written # <<>> => (gpc = "generated" /\ written.AREA_INFO = area_info)

\* C7, its case: the files are written, with one area taken from the
\* tzevaadom cities and one from MISSING_CITIES.
C7_Witness ==
    /\ gpc = "generated"
    /\ HaderaWest \in DOMAIN written.AREA_INFO
    /\ written.AREA_INFO[HaderaWest].en = "tzevaadom"
    /\ Gadish \in DOMAIN written.AREA_INFO
    /\ written.AREA_INFO[Gadish].en = "Gadish"

\* C9, as claimed: for every upstream input the non-group areas, the
\* city-group names and the district-group names are pairwise disjoint,
\* and the assertion on the combined list does not fail.
C9_AlwaysDisjoint ==
    gpc \notin {"idle", "init"} =>
        /\ Range(NoGroup) \cap DOMAIN CityToAreas = {}
        /\ Range(NoGroup) \cap DOMAIN DistrictToAreas = {}
        /\ DOMAIN CityToAreas \cap DOMAIN DistrictToAreas = {}
        /\ gpc # "groups_assertion_error"

\* C9, amended: no city-group name is among the non-group areas, for every
\* upstream input, the typo form of the suffix counting as the correct
\* one; a district-group name can be the name of a non-group area, and
\* then the assertion on the combined list fails; when it does not fail,
\* the combined list is sorted, free of duplicates and made of three
\* pairwise disjoint sets of names.
C9_DisjointOrAssertionError ==
    LET areas == Range(NoGroup)
        cities == DOMAIN CityToAreas
        district_names == DOMAIN DistrictToAreas
    IN  gpc \notin {"idle", "init"} =>
          /\ areas \cap cities = {}
          /\ \A l \in cities_mix :
                /\ EndsWith(l, CITY_ALL_AREAS_SUFFIX_TYPO) =>
                      (l \notin areas /\ l \notin cities)
                /\ (EndsWith(l, CITY_ALL_AREAS_SUFFIX_TYPO)
                       \/ EndsWith(l, CITY_ALL_AREAS_SUFFIX)) =>
                      Replace(l, CITY_ALL_AREAS_SUFFIX_TYPO,
                              CITY_ALL_AREAS_SUFFIX) \in cities
          /\ gpc # "district_assertion_error"
          /\ gpc = "groups_assertion_error" <=>
                district_names \cap (areas \cup cities) # {}
          /\ gpc # "groups_assertion_error" =>
                /\ IsSorted(areas_and_groups)
                /\ NoDuplicates(areas_and_groups)
                /\ Range(areas_and_groups) = areas \cup cities \cup district_names
                /\ Len(areas_and_groups) = Cardinality(areas)
                      + Cardinality(cities) + Cardinality(district_names)

\* C9, its case: the construction got past the assertion with non-group
\* areas, a city group given in the typo form and a district group.
C9_Witness ==
    /\ gpc = "tzevaadom"
    /\ HaderaAllTypo \in cities_mix
    /\ HaderaAll \notin cities_mix
    /\ HaderaAll \in Range(areas_and_groups)
    /\ HaderaWest \in Range(areas_and_groups)
    /\ DISTRICT_PREFIX \o <<Ch.dan>> \in Range(areas_and_groups)

====
